---- MODULE Spec2Model ----
(***************************************************************************)
(* Model of currently_not_used/STES/STES.py: the ThermalStorage class      *)
(* (constructor, single-node simulate, simulate_stratified and the two     *)
(* heat-loss functions).                                                   *)
(*                                                                         *)
(* Arithmetic.  The program computes in float64; the model computes in     *)
(* integers and draws the configurations and inputs from sets on which     *)
(* every quotient of the program is exact:                                 *)
(*   - temperatures are integers (degrees);                                *)
(*   - rho * cp = 3.6e6 J/(m3 K), so that one unit of volume stores one    *)
(*     kWh per degree, and every layer has volume 1;                       *)
(*   - a loss coefficient is 0 or LossUnit = 3.6e6 W/(m2 K), so that the   *)
(*     "/ 1000" and "/ 3600" of the program are exact;                     *)
(*   - areas and volumes of the round geometries are in units of pi.       *)
(* A value the program holds as IEEE NaN is the number NaN below; the      *)
(* operators F... give NaN its IEEE behaviour (it propagates through the   *)
(* arithmetic and every comparison with it is false).                      *)
(***************************************************************************)
EXTENDS Integers, Sequences, FiniteSets, TLC

\* ---------------------------------------------------------------- bounds
Hours == 3          \* hours of a run (the default of the program is 8760)
MaxLayers == 3      \* largest number of layers of a stratified run

\* ------------------------------------------------------- program numbers
SecondsPerHour == 3600
WattsPerKW == 1000
InsulationFactor == 37     \* 0.37 of the program, in hundredths
LossUnit == SecondsPerHour * WattsPerKW
RhoCp == 1                 \* rho * cp / 3.6e6

NaN == -2000000000

Objects == {1, 2}
HourIdx == 0..(Hours - 1)

\* ------------------------------------------------------------ IEEE values
IsNaN(x) == x = NaN
FAdd(x, y) == IF IsNaN(x) \/ IsNaN(y) THEN NaN ELSE x + y
FSub(x, y) == IF IsNaN(x) \/ IsNaN(y) THEN NaN ELSE x - y
FMul(x, y) == IF IsNaN(x) \/ IsNaN(y) THEN NaN ELSE x * y
FDiv(x, y) == IF IsNaN(x) \/ IsNaN(y) THEN NaN ELSE x \div y
FGt(x, y) == ~IsNaN(x) /\ ~IsNaN(y) /\ x > y
FLt(x, y) == ~IsNaN(x) /\ ~IsNaN(y) /\ x < y
FGe(x, y) == ~IsNaN(x) /\ ~IsNaN(y) /\ x >= y
FLe(x, y) == ~IsNaN(x) /\ ~IsNaN(y) /\ x <= y
FEq(x, y) == ~IsNaN(x) /\ ~IsNaN(y) /\ x = y

RECURSIVE SumTo(_, _)
\* f[0] + ... + f[n-1], NaN as soon as one term is NaN (np.sum)
SumTo(f, n) == IF n = 0 THEN 0 ELSE FAdd(SumTo(f, n - 1), f[n - 1])

\* Python's a[k] for k in -len..len-1
PyIndex(k, len) == IF k < 0 THEN k + len ELSE k

RECURSIVE ISqrt(_, _)
\* the integer r >= lo with r*r = x (np.sqrt on the perfect squares used)
ISqrt(x, lo) == IF lo * lo >= x THEN lo ELSE ISqrt(x, lo + 1)

\* storage: the ThermalStorage objects; globals: the module-level variables of
\* lines 27-31, which only the animation callbacks write
VARIABLES storage, globals

vars == << storage, globals >>

\* ------------------------------------------------------------- geometry
calculate_cylindrical_geometry(dimensions) ==
    LET radius == dimensions[1]
        height == dimensions[2]
        volume == radius * radius * height
        S_top  == radius * radius
        S_side == 2 * radius * height
    IN  [volume |-> volume, S_top |-> S_top, S_side |-> S_side, S_bottom |-> S_top]

calculate_truncated_cone_geometry(dimensions) ==
    LET top_radius    == dimensions[1]
        bottom_radius == dimensions[2]
        height        == dimensions[3]
        volume == (height * (top_radius * top_radius + bottom_radius * bottom_radius
                             + top_radius * bottom_radius)) \div 3
        S_top    == top_radius * top_radius
        S_bottom == bottom_radius * bottom_radius
        slant_height == ISqrt((top_radius - bottom_radius) * (top_radius - bottom_radius)
                              + height * height, 0)
        S_side == (top_radius + bottom_radius) * slant_height
    IN  [volume |-> volume, S_top |-> S_top, S_side |-> S_side, S_bottom |-> S_bottom]

calculate_truncated_trapezoid_geometry(dimensions) ==
    LET top_length    == dimensions[1]
        top_width     == dimensions[2]
        bottom_length == dimensions[3]
        bottom_width  == dimensions[4]
        height        == dimensions[5]
        A_top    == top_length * top_width
        A_bottom == bottom_length * bottom_width
        volume == (height * (A_top + A_bottom + ISqrt(A_top * A_bottom, 0))) \div 3
        side_length == ISqrt((top_length - bottom_length) * (top_length - bottom_length)
                             + height * height, 0)
        side_width  == ISqrt((top_width - bottom_width) * (top_width - bottom_width)
                             + height * height, 0)
        S_side_length == ((top_length + bottom_length) * side_length) \div 2
        S_side_width  == ((top_width + bottom_width) * side_width) \div 2
        S_side == 2 * (S_side_length + S_side_width)
    IN  [volume |-> volume, S_top |-> A_top, S_side |-> S_side, S_bottom |-> A_bottom]

NoGeometry == [volume |-> 0, S_top |-> 0, S_side |-> 0, S_bottom |-> 0]

\* the storage types the constructor has a geometry for
GeometryTypes == {"cylindrical", "truncated_cone", "truncated_trapezoid"}

Geometry(storage_type, dimensions) ==
    IF storage_type = "cylindrical" THEN calculate_cylindrical_geometry(dimensions)
    ELSE IF storage_type = "truncated_cone" THEN calculate_truncated_cone_geometry(dimensions)
    ELSE IF storage_type = "truncated_trapezoid"
         THEN calculate_truncated_trapezoid_geometry(dimensions)
    ELSE NoGeometry

\* ---------------------------------------------------- constructor inputs
\* reference, ambient and soil temperature 1; storage limits 4 and 8
InitialTemps == {4, 6, 8}
Heights == 1..MaxLayers
StorageTypes == {"cylindrical", "cylindrical_overground", "cylindrical_underground",
                 "truncated_cone", "truncated_trapezoid", "spherical"}

\* dimension tuples of volume = height (one unit of volume per unit of height)
Dims(storage_type, h) ==
    IF storage_type = "truncated_cone" THEN << 1, 1, h >>
    ELSE IF storage_type = "truncated_trapezoid" THEN << 1, 1, 1, 1, h >>
    ELSE IF storage_type = "cylindrical_underground" THEN << 2, h >>
    ELSE << 1, h >>

\* (lambda_top, K_s, K_b) offered for a storage type
LossCoefficients(storage_type) ==
    IF storage_type = "truncated_cone"
    THEN {<< 0, 0, 0 >>, << LossUnit, 0, 0 >>, << 0, LossUnit, LossUnit >>,
          << LossUnit, LossUnit, LossUnit >>}
    ELSE IF storage_type = "truncated_trapezoid" THEN {<< 0, LossUnit, LossUnit >>}
    ELSE {<< LossUnit, LossUnit, LossUnit >>}

\* side insulation thickness offered: 1 fails the underground check, 2 passes
SideThickness(storage_type) ==
    IF storage_type = "cylindrical_underground" THEN {1, 2} ELSE {1}

Args(storage_type, h, T0, lc, ds) ==
    [storage_type |-> storage_type, dimensions |-> Dims(storage_type, h),
     T_ref |-> 1, T_amb |-> 1, T_soil |-> 1,
     T_max |-> 8, T_min |-> 4, initial_temp |-> T0,
     lambda_top |-> lc[1], dt_top |-> 1, K_s |-> lc[2], K_b |-> lc[3],
     lambda_side |-> 1, lambda_soil |-> 1, ds_side |-> ds,
     hours |-> Hours, num_layers |-> 5, thermal_conductivity |-> 0]

AllArgs ==
    UNION { { Args(ty, h, T0, lc, ds) :
                h \in Heights, T0 \in InitialTemps,
                lc \in LossCoefficients(ty), ds \in SideThickness(ty) }
            : ty \in StorageTypes }

Zeros(n) == [k \in 0..(n - 1) |-> 0]

\* an object that has not been constructed
Blank ==
    [pc |-> "new", cfg |-> Args("spherical", 1, 4, << 0, 0, 0 >>, 1),
     geometry |-> NoGeometry,
     Q_sto |-> << >>, Q_loss |-> << >>, T_sto |-> << >>,
     T_sto_layers |-> << >>, Q_loss_layers |-> << >>,
     Q_in |-> << >>, Q_out |-> << >>,
     num_layers |-> 0, thermal_conductivity |-> 0,
     layer_thickness |-> 0, layer_volume |-> 0,
     heat_stored_per_layer |-> << >>, remaining_heat |-> 0,
     heat_transfer_kWh |-> 0,
     exception |-> "none", first |-> << >>, caller |-> "none",
     efficiency |-> [set |-> FALSE, num |-> 0, den |-> 0],
     efficiency_args |-> [Q_in |-> << >>, Q_out |-> << >>],
     operational_costs |-> [set |-> FALSE, value |-> 0],
     energy_price_per_kWh |-> 0,
     loss_argument |-> << >>, loss_returned |-> 0,
     t |-> 0, i |-> 0, runs |-> 0, last |-> "none"]

\* the module-level variables as the import of the module leaves them
ModuleGlobals ==
    [is_animating |-> FALSE, anim_speed |-> 200, anim |-> "None", current_frame |-> 0,
     slider |-> [defined |-> FALSE, val |-> 0, valmax |-> 0, storage |-> 0],
     next_frame |-> 0]

Init ==
    /\ storage = [o \in Objects |-> Blank]
    /\ globals = ModuleGlobals

\* ThermalStorage.__init__
Construct(o, args) ==
    /\ storage[o].pc = "new"
    /\ storage' = [storage EXCEPT ![o] =
         IF args.storage_type \in GeometryTypes
         THEN [@ EXCEPT !.pc = "idle", !.cfg = args,
                        !.Q_sto = Zeros(args.hours),
                        !.Q_loss = Zeros(args.hours),
                        !.T_sto = [Zeros(args.hours) EXCEPT ![0] = args.initial_temp],
                        !.geometry = Geometry(args.storage_type, args.dimensions)]
         ELSE [@ EXCEPT !.pc = "raised", !.cfg = args, !.exception = "ValueError"]]
    /\ UNCHANGED globals

\* ------------------------------------------------------------ heat loss
\* the result of a call: a value, or the exception it raised
Returned(v) == [raised |-> FALSE, value |-> v, exception |-> "none"]
Raised(e) == [raised |-> TRUE, value |-> 0, exception |-> e]

\* the insulation check of the underground cylinder:
\* ds_side > 2 * d_min with d_min = (lambda_side / lambda_soil) * R * 0.37
InsulationSufficient(cfg) ==
    cfg.ds_side * 100 * cfg.lambda_soil
        > 2 * cfg.lambda_side * cfg.dimensions[1] * InsulationFactor

\* ThermalStorage.calculate_heat_loss: kW, or None (stored as NaN by numpy)
\* for a storage type no branch handles
calculate_heat_loss(s, T_sto_last) ==
    LET cfg == s.cfg
        g   == s.geometry
    IN  IF cfg.storage_type = "cylindrical_overground"
        THEN LET Q_t == FMul(FSub(T_sto_last, cfg.T_amb),
                             (cfg.lambda_top \div cfg.dt_top) * g.S_top)
                 Q_s == FMul(FSub(T_sto_last, cfg.T_amb),
                             (cfg.lambda_side \div cfg.ds_side) * g.S_side)
                 Q_b == FMul(FSub(T_sto_last, cfg.T_amb), cfg.K_b * g.S_bottom)
             IN  Returned(FDiv(FAdd(FAdd(Q_t, Q_s), Q_b), WattsPerKW))
        ELSE IF cfg.storage_type = "cylindrical_underground"
        THEN IF InsulationSufficient(cfg)
             THEN LET R == cfg.dimensions[1]
                      H == cfg.dimensions[2]
                      S_c == R * R + 2 * R * H
                      Q_sb == FMul(FSub(T_sto_last, cfg.T_soil), cfg.K_s * S_c)
                  IN  Returned(FDiv(Q_sb, WattsPerKW))
             ELSE Raised("ValueError")
        ELSE IF cfg.storage_type \in {"truncated_cone", "truncated_trapezoid"}
        THEN IF Len(cfg.dimensions) < 3 THEN Raised("IndexError")
             ELSE
             LET Q_s == FMul(FSub(T_sto_last, cfg.T_soil), cfg.K_s * g.S_side)
                 Q_b == FMul(FSub(T_sto_last, cfg.T_soil), cfg.K_b * g.S_bottom)
             IN  Returned(FDiv(FAdd(Q_s, Q_b), WattsPerKW))
        ELSE Returned(NaN)

\* ------------------------------------------------------ single-node run
\* inputs of a run: (Q_in, Q_out) of one hour
HourInputs == {<< 3, 0 >>, << 0, 2 >>, << 1, 1 >>}
InputSeries == [HourIdx -> HourInputs]

\* the clamp of simulate, lines 281-284
ClampTemperature(cfg, T) ==
    IF FGt(T, cfg.T_max) THEN cfg.T_max
    ELSE IF FLt(T, cfg.T_min) THEN cfg.T_min
    ELSE T

\* the object s on entry to the loop of simulate(Q_in, Q_out)
BeginSimulate(s, Q_in, Q_out) ==
    [s EXCEPT !.pc = "simulate", !.t = 0, !.last = "simulate",
              !.Q_in = Q_in, !.Q_out = Q_out]

\* a call of simulate(Q_in, Q_out)
CallSimulate(o, series) ==
    /\ storage[o].pc = "idle"
    /\ storage[o].runs = 0
    /\ storage' = [storage EXCEPT ![o] =
         BeginSimulate(@, [h \in DOMAIN series |-> series[h][1]],
                          [h \in DOMAIN series |-> series[h][2]])]
    /\ UNCHANGED globals

\* one iteration of the loop of simulate
SimulateStep(o) ==
    LET s    == storage[o]
        cfg  == s.cfg
        t    == s.t
        loss == calculate_heat_loss(s, s.T_sto[PyIndex(t - 1, cfg.hours)])
        Q_loss1 == [s.Q_loss EXCEPT ![t] = loss.value]
        Q_sto1 ==
            IF t = 0
            THEN [s.Q_sto EXCEPT ![t] =
                    s.geometry.volume * RhoCp * (s.T_sto[t] - cfg.T_ref)]
            ELSE [s.Q_sto EXCEPT ![t] =
                    FAdd(s.Q_sto[t - 1],
                         FSub(s.Q_in[t] - s.Q_out[t], Q_loss1[t]))]
        T_sto1 ==
            IF t = 0 THEN s.T_sto
            ELSE [s.T_sto EXCEPT ![t] =
                    FAdd(FDiv(Q_sto1[t], s.geometry.volume * RhoCp), cfg.T_ref)]
        T_sto2 == [T_sto1 EXCEPT ![t] = ClampTemperature(cfg, T_sto1[t])]
    IN  /\ s.pc = "simulate"
        /\ t < cfg.hours
        /\ storage' = [storage EXCEPT ![o] =
             IF loss.raised
             THEN [@ EXCEPT !.pc = "idle", !.runs = @ + 1, !.last = "simulate_raised",
                            !.exception = loss.exception, !.caller = "none"]
             ELSE IF t # 0 /\ (t \notin DOMAIN s.Q_in \/ t \notin DOMAIN s.Q_out)
             THEN [@ EXCEPT !.Q_loss = Q_loss1,
                            !.pc = "idle", !.runs = @ + 1, !.last = "simulate_raised",
                            !.exception = "IndexError", !.caller = "none"]
             ELSE [@ EXCEPT !.Q_loss = Q_loss1, !.Q_sto = Q_sto1, !.T_sto = T_sto2,
                            !.t = t + 1,
                            !.pc = IF t + 1 < cfg.hours THEN "simulate"
                                   ELSE IF s.caller = "optimize" THEN "objective"
                                   ELSE "idle",
                            !.runs = IF t + 1 = cfg.hours THEN @ + 1 ELSE @]]
        /\ UNCHANGED globals

\* ------------------------------------------------------ stratified run
\* ThermalStorage.calculate_stratified_heat_loss: the loss of every layer in
\* kW (self.Q_loss_layers) and their sum
LayerLoss(s, T_layers, n, i) ==
    LET cfg == s.cfg
        g   == s.geometry
        T_layer == T_layers[i]
    IN  IF cfg.storage_type = "cylindrical_overground"
        THEN IF i = 0
             THEN ((cfg.lambda_top \div cfg.dt_top) * g.S_top * (T_layer - cfg.T_amb))
                      \div WattsPerKW
             ELSE IF i = n - 1
             THEN (cfg.K_b * g.S_bottom * (T_layer - cfg.T_amb)) \div WattsPerKW
             ELSE (((cfg.lambda_side \div cfg.ds_side) * (T_layer - cfg.T_amb) * g.S_side)
                      \div n) \div WattsPerKW
        ELSE IF cfg.storage_type = "cylindrical_underground"
        THEN LET R == cfg.dimensions[1]
                 H == cfg.dimensions[2]
                 S_c == R * R + 2 * R * H
             IN  IF i = 0
                 THEN ((cfg.lambda_top \div cfg.dt_top) * g.S_top * (T_layer - cfg.T_amb))
                          \div WattsPerKW
                 ELSE ((cfg.K_s * S_c * (T_layer - cfg.T_soil)) \div n) \div WattsPerKW
        ELSE IF cfg.storage_type \in {"truncated_cone", "truncated_trapezoid"}
        THEN IF i = 0
             THEN ((cfg.lambda_top \div cfg.dt_top) * g.S_top * (T_layer - cfg.T_amb))
                      \div WattsPerKW
             ELSE IF i = n - 1
             THEN (cfg.K_b * g.S_bottom * (T_layer - cfg.T_soil)) \div WattsPerKW
             ELSE ((cfg.K_s * g.S_side * (T_layer - cfg.T_soil)) \div n) \div WattsPerKW
        ELSE 0

\* line 343, mutated: the returned total leaves the last layer out
calculate_stratified_heat_loss_short(s, T_layers, n) ==
    IF n > 0 /\ s.cfg.storage_type = "cylindrical_underground"
             /\ ~InsulationSufficient(s.cfg)
    THEN [raised |-> TRUE, layers |-> Zeros(n), value |-> 0]
    ELSE LET layers == [i \in 0..(n - 1) |-> LayerLoss(s, T_layers, n, i)]
         IN  [raised |-> FALSE, layers |-> layers, value |-> SumTo(layers, n - 1)]

calculate_stratified_heat_loss(s, T_layers, n) ==
    IF n > 0 /\ s.cfg.storage_type = "cylindrical_underground"
             /\ ~InsulationSufficient(s.cfg)
    THEN [raised |-> TRUE, layers |-> Zeros(n), value |-> 0]
    ELSE LET layers == [i \in 0..(n - 1) |-> LayerLoss(s, T_layers, n, i)]
         IN  [raised |-> FALSE, layers |-> layers, value |-> SumTo(layers, n)]

\* the height entry of the dimension tuple, lines 352-362
StratifiedHeight(cfg) ==
    IF cfg.storage_type = "cylindrical" THEN cfg.dimensions[2]
    ELSE IF cfg.storage_type \in {"truncated_cone", "truncated_trapezoid"}
    THEN cfg.dimensions[3]
    ELSE 0

\* thermal conductivities of the medium offered to a run
ThermalConductivities == {0, 125, 250, 500}

\* the calls of simulate_stratified modelled are those with layers of volume 1
\* and height 1 and a conductivity that moves 0 or 1 kWh per degree and hour
UnitLayers(s, num_layers, thermal_conductivity) ==
    /\ s.geometry.volume = num_layers
    /\ StratifiedHeight(s.cfg) = num_layers
    /\ thermal_conductivity * s.geometry.S_side \in {0, WattsPerKW}

\* the object s after lines 352-366 of
\* simulate_stratified(Q_in, Q_out, num_layers, thermal_conductivity)
BeginStratified(s, Q_in, Q_out, num_layers, thermal_conductivity) ==
    LET cfg == s.cfg
        height == StratifiedHeight(cfg)
    IN  IF cfg.storage_type \notin GeometryTypes
        THEN [s EXCEPT !.runs = @ + 1, !.last = "stratified_raised",
                       !.exception = "ValueError"]
        ELSE [s EXCEPT !.pc = "strat_loss", !.t = 0, !.i = 0,
                !.last = "simulate_stratified",
                !.Q_in = Q_in,
                !.Q_out = Q_out,
                !.num_layers = num_layers,
                !.thermal_conductivity = thermal_conductivity,
                !.layer_thickness = height \div num_layers,
                !.layer_volume = s.geometry.volume \div num_layers,
                !.T_sto_layers =
                   [h \in 0..(cfg.hours - 1) |->
                       [i \in 0..(num_layers - 1) |-> s.T_sto[0]]],
                !.heat_stored_per_layer = Zeros(num_layers)]

\* a call of simulate_stratified(Q_in, Q_out, num_layers, thermal_conductivity),
\* up to the loop
CallStratified(o, series, num_layers, thermal_conductivity) ==
    LET s == storage[o]
    IN  /\ s.pc = "idle"
        /\ s.runs = 0
        /\ UnitLayers(s, num_layers, thermal_conductivity)
        /\ storage' = [storage EXCEPT ![o] =
             BeginStratified(@, [h \in DOMAIN series |-> series[h][1]],
                                [h \in DOMAIN series |-> series[h][2]],
                                num_layers, thermal_conductivity)]
        /\ UNCHANGED globals

\* kWh that raise a layer by one degree: layer_volume * rho * cp / 3.6e6
LayerCapacity(s) == s.layer_volume * RhoCp

\* lines 370-378: the loss of the hour, the balance of the hour, and at t = 0
\* the initial stored heat
StratLoss(o) ==
    LET s == storage[o]
        cfg == s.cfg
        t == s.t
        n == s.num_layers
        loss == calculate_stratified_heat_loss(
                    s, s.T_sto_layers[PyIndex(t - 1, cfg.hours)], n)
        Q_sto0 == s.geometry.volume * RhoCp * (s.T_sto[t] - cfg.T_ref)
    IN  /\ s.pc = "strat_loss"
        /\ storage' = [storage EXCEPT ![o] =
             IF loss.raised
             THEN [@ EXCEPT !.pc = "idle", !.runs = @ + 1, !.last = "stratified_raised",
                            !.exception = "ValueError",
                            !.Q_loss_layers = loss.layers]
             ELSE IF t \notin DOMAIN s.Q_in \/ t \notin DOMAIN s.Q_out
             THEN [@ EXCEPT !.Q_loss_layers = loss.layers,
                            !.Q_loss = [@ EXCEPT ![t] = loss.value],
                            !.pc = "idle", !.runs = @ + 1, !.last = "stratified_raised",
                            !.exception = "IndexError"]
             ELSE IF t = 0
             THEN [@ EXCEPT !.Q_loss_layers = loss.layers,
                            !.Q_loss = [@ EXCEPT ![t] = loss.value],
                            !.remaining_heat = s.Q_in[t] - s.Q_out[t],
                            !.Q_sto = [@ EXCEPT ![t] = Q_sto0],
                            !.heat_stored_per_layer =
                                [i \in 0..(n - 1) |-> Q_sto0 \div n],
                            !.pc = "strat_record"]
             ELSE [@ EXCEPT !.Q_loss_layers = loss.layers,
                            !.Q_loss = [@ EXCEPT ![t] = loss.value],
                            !.remaining_heat = s.Q_in[t] - s.Q_out[t],
                            !.i = 0,
                            !.pc = "strat_discharge"]]
        /\ UNCHANGED globals

\* lines 382-396, mutated: the layer gives all it has, whatever is needed
DischargeLayer_whole(s, i) ==
    LET t == s.t
        T_prev == s.T_sto_layers[t - 1][i]
        available_heat_in_layer == (T_prev - s.cfg.T_min) * LayerCapacity(s)
    IN  IF s.remaining_heat < 0
        THEN [s EXCEPT !.heat_stored_per_layer[i] = @ - available_heat_in_layer,
                       !.T_sto_layers[t][i] = s.cfg.T_min,
                       !.remaining_heat = @ + available_heat_in_layer]
        ELSE s

\* lines 382-396: layer i in the discharge loop
DischargeLayer(s, i) ==
    LET t == s.t
        T_prev == s.T_sto_layers[t - 1][i]
        available_heat_in_layer == (T_prev - s.cfg.T_min) * LayerCapacity(s)
        heat_needed == -s.remaining_heat
    IN  IF s.remaining_heat < 0
        THEN IF heat_needed >= available_heat_in_layer
             THEN [s EXCEPT !.heat_stored_per_layer[i] = @ - available_heat_in_layer,
                            !.T_sto_layers[t][i] = s.cfg.T_min,
                            !.remaining_heat = @ + available_heat_in_layer]
             ELSE [s EXCEPT !.heat_stored_per_layer[i] = @ - heat_needed,
                            !.T_sto_layers[t][i] = T_prev - (heat_needed \div LayerCapacity(s)),
                            !.remaining_heat = 0]
        ELSE s

\* lines 400-425, mutated: the loss of the layer is not taken from its energy
ChargeLayer_lossless(s, i) ==
    LET t == s.t
        T_prev == s.T_sto_layers[t - 1][i]
        max_heat_in_layer == (s.cfg.T_max - T_prev) * LayerCapacity(s)
        charged ==
            IF s.remaining_heat > 0
            THEN IF s.remaining_heat >= max_heat_in_layer
                 THEN [s EXCEPT !.heat_stored_per_layer[i] = @ + max_heat_in_layer,
                                !.T_sto_layers[t][i] = s.cfg.T_max,
                                !.remaining_heat = @ - max_heat_in_layer]
                 ELSE [s EXCEPT !.heat_stored_per_layer[i] = @ + s.remaining_heat,
                                !.T_sto_layers[t][i] =
                                    T_prev + (s.remaining_heat \div LayerCapacity(s)),
                                !.remaining_heat = 0]
            ELSE [s EXCEPT !.T_sto_layers[t][i] = T_prev]
    IN  IF charged.T_sto_layers[t][i] < s.cfg.T_min
        THEN [charged EXCEPT !.T_sto_layers[t][i] = s.cfg.T_min]
        ELSE charged

\* lines 400-425: layer i in the charge loop
ChargeLayer(s, i) ==
    LET t == s.t
        T_prev == s.T_sto_layers[t - 1][i]
        heat_loss_layer == s.Q_loss_layers[i]
        max_heat_in_layer == (s.cfg.T_max - T_prev) * LayerCapacity(s)
        charged ==
            IF s.remaining_heat > 0
            THEN IF s.remaining_heat >= max_heat_in_layer
                 THEN [s EXCEPT !.heat_stored_per_layer[i] = @ + max_heat_in_layer,
                                !.T_sto_layers[t][i] = s.cfg.T_max,
                                !.remaining_heat = @ - max_heat_in_layer]
                 ELSE [s EXCEPT !.heat_stored_per_layer[i] = @ + s.remaining_heat,
                                !.T_sto_layers[t][i] =
                                    T_prev + (s.remaining_heat \div LayerCapacity(s)),
                                !.remaining_heat = 0]
            ELSE [s EXCEPT !.T_sto_layers[t][i] = T_prev]
        lost == [charged EXCEPT !.heat_stored_per_layer[i] =
                                    @ - (heat_loss_layer \div SecondsPerHour)]
    IN  IF lost.T_sto_layers[t][i] < s.cfg.T_min
        THEN [lost EXCEPT !.T_sto_layers[t][i] = s.cfg.T_min]
        ELSE lost

\* lines 431-434, mutated: the conductivity is that of the run of the first
\* object, as a class-level variable would hold it
HeatTransferKWh_shared(s, delta_T) ==
    ((storage[1].thermal_conductivity * s.geometry.S_side * delta_T)
        \div s.layer_thickness) \div WattsPerKW

\* lines 431-434: kWh conducted in the hour from layer i to layer i+1
HeatTransferKWh(s, delta_T) ==
    ((s.thermal_conductivity * s.geometry.S_side * delta_T) \div s.layer_thickness)
        \div WattsPerKW

\* lines 437-438, mutated: the heat taken from layer i is not given to layer i+1
MoveHeat_lost(heat, i, q) == [heat EXCEPT ![i] = @ - q]

\* lines 437-438: q kWh leave layer i and enter layer i+1
MoveHeat(heat, i, q) == [heat EXCEPT ![i] = @ - q, ![i + 1] = @ + q]

\* lines 441-442: the temperature a layer's stored heat implies
ImpliedTemperature(s, heat) == (heat \div LayerCapacity(s)) + s.cfg.T_ref

\* lines 429-442: the pair (i, i+1) in the diffusion loop
DiffusePair(s, i) ==
    LET t == s.t
        delta_T == s.T_sto_layers[t][i] - s.T_sto_layers[t][i + 1]
        heat_transfer_kWh == HeatTransferKWh(s, delta_T)
        heat == MoveHeat(s.heat_stored_per_layer, i, heat_transfer_kWh)
    IN  [s EXCEPT !.heat_stored_per_layer = heat,
                  !.heat_transfer_kWh = heat_transfer_kWh,
                  !.T_sto_layers[t][i] = ImpliedTemperature(s, heat[i]),
                  !.T_sto_layers[t][i + 1] = ImpliedTemperature(s, heat[i + 1])]

\* line 445, mutated: the last layer is left out of the sum
TotalStored_short(heat, n) == SumTo(heat, n - 1)

\* line 445: np.sum(heat_stored_per_layer)
TotalStored(heat, n) == SumTo(heat, n)

\* one iteration of the discharge loop
StratDischarge(o) ==
    LET s == storage[o]
        n == s.num_layers
        s1 == DischargeLayer(s, s.i)
    IN  /\ s.pc = "strat_discharge"
        /\ s.i < n
        /\ storage' = [storage EXCEPT ![o] =
             IF s.i + 1 < n
             THEN [s1 EXCEPT !.i = s.i + 1]
             ELSE [s1 EXCEPT !.i = 0, !.pc = "strat_charge"]]
        /\ UNCHANGED globals

\* one iteration of the charge loop
StratCharge(o) ==
    LET s == storage[o]
        n == s.num_layers
        s1 == ChargeLayer(s, s.i)
    IN  /\ s.pc = "strat_charge"
        /\ s.i < n
        /\ storage' = [storage EXCEPT ![o] =
             IF s.i + 1 < n
             THEN [s1 EXCEPT !.i = s.i + 1]
             ELSE [s1 EXCEPT !.i = 0,
                             !.pc = IF n - 1 > 0 THEN "strat_diffuse" ELSE "strat_record"]]
        /\ UNCHANGED globals

\* one iteration of the diffusion loop
StratDiffuse(o) ==
    LET s == storage[o]
        n == s.num_layers
        s1 == DiffusePair(s, s.i)
    IN  /\ s.pc = "strat_diffuse"
        /\ s.i < n - 1
        /\ storage' = [storage EXCEPT ![o] =
             IF s.i + 1 < n - 1
             THEN [s1 EXCEPT !.i = s.i + 1]
             ELSE [s1 EXCEPT !.i = 0, !.pc = "strat_record"]]
        /\ UNCHANGED globals

\* lines 445-448: the totals of the hour, and the next hour
StratRecord(o) ==
    LET s == storage[o]
        n == s.num_layers
        t == s.t
    IN  /\ s.pc = "strat_record"
        /\ storage' = [storage EXCEPT ![o] =
             [@ EXCEPT !.Q_sto[t] = TotalStored(s.heat_stored_per_layer, n),
                       !.T_sto[t] = SumTo(s.T_sto_layers[t], n) \div n,
                       !.t = t + 1,
                       !.pc = IF t + 1 = s.cfg.hours THEN "idle" ELSE "strat_loss",
                       !.runs = IF t + 1 = s.cfg.hours THEN @ + 1 ELSE @]]
        /\ UNCHANGED globals

Next == \E o \in {1} :
    \/ \E args \in AllArgs : Construct(o, args)
    \/ \E series \in InputSeries : CallSimulate(o, series)
    \/ SimulateStep(o)
    \/ \E series \in InputSeries, n \in 1..MaxLayers, k \in ThermalConductivities :
          CallStratified(o, series, n, k)
    \/ StratLoss(o)
    \/ StratDischarge(o)
    \/ StratCharge(o)
    \/ StratDiffuse(o)
    \/ StratRecord(o)

Spec == Init /\ [][Next]_vars

\* ----------------------------------------------------------- the claims
\* hour h of the stratified run of s has been recorded
StratifiedHourDone(s, h) == s.last = "simulate_stratified" /\ h < s.t

\* hour h of the single-node run of s has been computed
SimulateHourDone(s, h) == s.last = "simulate" /\ h < s.t

InRange(cfg, T) == FGe(T, cfg.T_min) /\ FLe(T, cfg.T_max)

\* C1: in a stratified run that starts with T_min <= initial_temp <= T_max,
\* every recorded layer temperature T_sto_layers[t, i] lies in [T_min, T_max].
C1_LayerTemperaturesInRange ==
    \A o \in Objects : \A h \in HourIdx :
        LET s == storage[o]
        IN  StratifiedHourDone(s, h) /\ InRange(s.cfg, s.cfg.initial_temp)
            => \A i \in 0..(s.num_layers - 1) : InRange(s.cfg, s.T_sto_layers[h][i])

\* C2: at every hour t, t = 0 included, the reported Q_sto[t] is the sum of
\* heat_stored_per_layer as it stands at the end of step t.
C2_TotalIsSumOfLayers ==
    \A o \in Objects :
        LET s == storage[o]
        IN  s.last = "simulate_stratified" /\ s.pc \in {"strat_loss", "idle"} /\ s.t >= 1
            => s.Q_sto[s.t - 1] = SumTo(s.heat_stored_per_layer, s.num_layers)

\* a stratified run has recorded an hour after the first in which the layers
\* hold different amounts of heat
C2_Witness ==
    \E o \in Objects :
        LET s == storage[o]
        IN  /\ s.last = "simulate_stratified" /\ s.pc = "strat_loss" /\ s.t >= 2
            /\ s.num_layers >= 2
            /\ s.heat_stored_per_layer[0] # s.heat_stored_per_layer[1]
            /\ s.Q_sto[s.t - 1] # s.Q_sto[0]

\* C3: a step of the diffusion pass takes from layer i exactly what it gives
\* to layer i+1, and leaves the sum of the layers' stored heat unchanged.
C3_DiffusionConserves ==
    [][\A o \in Objects :
         LET s == storage[o]
             i == s.i
             before == s.heat_stored_per_layer
             after == storage'[o].heat_stored_per_layer
         IN  s.pc = "strat_diffuse" /\ storage'[o] # s
             => /\ before[i] - after[i] = after[i + 1] - before[i + 1]
                /\ \A j \in 0..(s.num_layers - 1) :
                      j \notin {i, i + 1} => after[j] = before[j]
                /\ SumTo(after, s.num_layers) = SumTo(before, s.num_layers)]_vars

\* the diffusion pass of an hour has run and its last pair moved heat
C3_Witness ==
    \E o \in Objects :
        LET s == storage[o]
        IN  s.pc = "strat_record" /\ s.t >= 1 /\ s.num_layers >= 2
            /\ s.heat_transfer_kWh # 0

\* C4: a layer recorded at T_max stays exactly at T_max in an hour of net
\* input, and a layer recorded at T_min stays exactly at T_min in an hour of
\* net demand.
C4_ClampIdempotent ==
    \A o \in Objects : \A h \in HourIdx :
        LET s == storage[o]
        IN  StratifiedHourDone(s, h) /\ h >= 1
            => \A i \in 0..(s.num_layers - 1) :
                 /\ (s.T_sto_layers[h - 1][i] = s.cfg.T_max /\ s.Q_in[h] - s.Q_out[h] > 0
                        => s.T_sto_layers[h][i] = s.cfg.T_max)
                 /\ (s.T_sto_layers[h - 1][i] = s.cfg.T_min /\ s.Q_in[h] - s.Q_out[h] < 0
                        => s.T_sto_layers[h][i] = s.cfg.T_min)

\* C5: after simulate has run, every T_sto[t] lies in [T_min, T_max], and a
\* node at T_max (T_min) stays there in an hour of net charge (discharge).
C5_NodeTemperatureInRange ==
    \A o \in Objects : \A h \in HourIdx :
        LET s == storage[o]
        IN  s.last = "simulate" /\ s.pc = "idle" /\ s.runs >= 1
            => /\ InRange(s.cfg, s.T_sto[h])
               /\ (h >= 1 /\ s.T_sto[h - 1] = s.cfg.T_max
                     /\ FGt(FSub(s.Q_in[h] - s.Q_out[h], s.Q_loss[h]), 0)
                        => s.T_sto[h] = s.cfg.T_max)
               /\ (h >= 1 /\ s.T_sto[h - 1] = s.cfg.T_min
                     /\ FLt(FSub(s.Q_in[h] - s.Q_out[h], s.Q_loss[h]), 0)
                        => s.T_sto[h] = s.cfg.T_min)

\* C6: in simulate, Q_sto[t] - Q_sto[t-1] = Q_in[t] - Q_out[t] - Q_loss[t] for
\* every t >= 1.
C6_NodeEnergyBalance ==
    \A o \in Objects : \A h \in HourIdx :
        LET s == storage[o]
        IN  SimulateHourDone(s, h) /\ h >= 1
            => FEq(FSub(s.Q_sto[h], s.Q_sto[h - 1]),
                   FSub(s.Q_in[h] - s.Q_out[h], s.Q_loss[h]))

\* ------------------------------------------- two objects, same arguments
\* constructor arguments and input series of the comparison runs
PairArgs ==
    { Args("truncated_cone", h, 6, lc, 1) :
        h \in {1, 2}, lc \in {<< 0, 0, 0 >>, << LossUnit, LossUnit, LossUnit >>} }
ConstantSeries == { [h \in HourIdx |-> p] : p \in HourInputs }

NextPair == \E o \in Objects :
    \/ \E args \in PairArgs : Construct(o, args)
    \/ \E series \in ConstantSeries : CallSimulate(o, series)
    \/ SimulateStep(o)
    \/ \E series \in ConstantSeries, n \in {1, 2}, k \in ThermalConductivities :
          CallStratified(o, series, n, k)
    \/ StratLoss(o)
    \/ StratDischarge(o)
    \/ StratCharge(o)
    \/ StratDiffuse(o)
    \/ StratRecord(o)

SpecPair == Init /\ [][NextPair]_vars

RunFinished(s, method) == s.last = method /\ s.pc = "idle" /\ s.runs >= 1

\* C7: with num_layers = 1, simulate_stratified yields the Q_sto, Q_loss and
\* T_sto of simulate for the same configuration and the same inputs.
C7_OneLayerEqualsSingleNode ==
    \A a, b \in Objects :
        LET sa == storage[a]
            sb == storage[b]
        IN  /\ RunFinished(sa, "simulate")
            /\ RunFinished(sb, "simulate_stratified")
            /\ sb.num_layers = 1
            /\ sa.cfg = sb.cfg /\ sa.Q_in = sb.Q_in /\ sa.Q_out = sb.Q_out
            => \A h \in HourIdx :
                 /\ FEq(sa.Q_sto[h], sb.Q_sto[h])
                 /\ FEq(sa.Q_loss[h], sb.Q_loss[h])
                 /\ FEq(sa.T_sto[h], sb.T_sto[h])

\* the reference scenario: a cylinder that starts between T_min and T_max and
\* is fed a constant Q_in above a constant Q_out
ReferenceScenario(s) ==
    /\ s.cfg.storage_type = "cylindrical"
    /\ s.cfg.T_min < s.cfg.initial_temp /\ s.cfg.initial_temp < s.cfg.T_max
    /\ \A h \in HourIdx : s.Q_in[h] = s.Q_in[0] /\ s.Q_out[h] = s.Q_out[0]
    /\ s.Q_in[0] > s.Q_out[0]

\* C8: in the reference scenario a run of simulate, and a run of
\* simulate_stratified, ends with T_sto[t] >= T_sto[t-1] for every t >= 1 and
\* T_sto[t] <= T_max for every t.
C8_ReferenceScenarioMonotone ==
    \A o \in Objects :
        LET s == storage[o]
        IN  /\ s.pc = "idle" /\ s.runs >= 1
            /\ s.last \in {"simulate", "simulate_stratified"}
            /\ ReferenceScenario(s)
            => \A h \in HourIdx :
                 /\ FLe(s.T_sto[h], s.cfg.T_max)
                 /\ h >= 1 => FGe(s.T_sto[h], s.T_sto[h - 1])

\* C9: an underground cylinder with ds_side <= 2 * d_min is rejected before a
\* simulation step has written state, and one with ds_side > 2 * d_min is
\* accepted.
C9_UndergroundInsulationDecides ==
    \A o \in Objects :
        LET s == storage[o]
        IN  s.cfg.storage_type = "cylindrical_underground" /\ s.pc # "new"
            => IF InsulationSufficient(s.cfg)
               THEN s.pc # "raised"
               ELSE \/ s.pc = "raised"
                    \/ /\ s.last \in {"simulate_raised", "stratified_raised"}
                       /\ s.Q_sto = Zeros(s.cfg.hours)

\* C10: the constructor succeeds for the five storage types cylindrical,
\* cylindrical_overground, cylindrical_underground, truncated_cone and
\* truncated_trapezoid, and raises for every other.
C10_ConstructorAcceptsFiveTypes ==
    \A o \in Objects :
        LET s == storage[o]
        IN  s.pc # "new"
            => (s.pc # "raised"
                  <=> s.cfg.storage_type \in
                        {"cylindrical", "cylindrical_overground",
                         "cylindrical_underground", "truncated_cone",
                         "truncated_trapezoid"})

\* C11: the loss simulate stores is a number: calculate_heat_loss returns a
\* power for every storage type the constructor accepts, and never "no value".
C11_LossIsNumeric ==
    \A o \in Objects : \A h \in HourIdx :
        LET s == storage[o]
        IN  SimulateHourDone(s, h) => ~IsNaN(s.Q_loss[h])

\* the storage starts, and is clamped, no colder than its surroundings
WarmerThanSurroundings(cfg) ==
    /\ cfg.initial_temp >= cfg.T_amb /\ cfg.initial_temp >= cfg.T_soil
    /\ cfg.T_min >= cfg.T_amb /\ cfg.T_min >= cfg.T_soil

\* C15: when initial_temp and T_min are at or above T_amb and T_soil, the
\* recorded loss Q_loss[t] is non-negative at every index t, t = 0 included,
\* in a simulate run and in a simulate_stratified run.
C15_LossNonNegative ==
    \A o \in Objects : \A h \in HourIdx :
        LET s == storage[o]
        IN  /\ WarmerThanSurroundings(s.cfg)
            /\ SimulateHourDone(s, h) \/ StratifiedHourDone(s, h)
            => FGe(s.Q_loss[h], 0)

\* the stratified run of s stands at the end of a time step
StepEnded(s) ==
    /\ s.last = "simulate_stratified"
    /\ s.pc \in {"strat_loss", "idle"}
    /\ s.t >= 1

\* C16: with T_ref <= T_min <= initial_temp <= T_max, every layer's stored
\* energy heat_stored_per_layer[i] is non-negative at the end of every time
\* step of simulate_stratified, whatever the inputs.
C16_LayerEnergyNonNegative ==
    \A o \in Objects :
        LET s == storage[o]
        IN  /\ s.cfg.T_ref <= s.cfg.T_min
            /\ InRange(s.cfg, s.cfg.initial_temp)
            /\ StepEnded(s)
            => \A i \in 0..(s.num_layers - 1) : FGe(s.heat_stored_per_layer[i], 0)

\* ------------------------------------------- inputs of the wrong length
\* lengths of Q_in and Q_out that differ from the configured hours
MismatchedLengths == {Hours - 1, Hours + 1}

MismatchedSeries == UNION {[0..(L - 1) -> HourInputs] : L \in MismatchedLengths}

NextShape == \E o \in {1} :
    \/ \E args \in PairArgs : Construct(o, args)
    \/ \E series \in MismatchedSeries : CallSimulate(o, series)
    \/ SimulateStep(o)
    \/ \E series \in MismatchedSeries, n \in 1..MaxLayers, k \in ThermalConductivities :
          CallStratified(o, series, n, k)
    \/ StratLoss(o)
    \/ StratDischarge(o)
    \/ StratCharge(o)
    \/ StratDiffuse(o)
    \/ StratRecord(o)

SpecShape == Init /\ [][NextShape]_vars

\* the inputs of the last call on s do not have one value per configured hour
LengthMismatch(s) ==
    DOMAIN s.Q_in # 0..(s.cfg.hours - 1) \/ DOMAIN s.Q_out # 0..(s.cfg.hours - 1)

\* the call on s has ended, by returning or by raising
CallEnded(s) == s.pc = "idle" /\ s.runs >= 1

\* the result arrays of s are those the constructor left
NoResults(s) ==
    /\ s.Q_sto = Zeros(s.cfg.hours)
    /\ s.Q_loss = Zeros(s.cfg.hours)
    /\ s.T_sto = [Zeros(s.cfg.hours) EXCEPT ![0] = s.cfg.initial_temp]

\* C12: a call of simulate or simulate_stratified with Q_in or Q_out shorter or
\* longer than the configured hours ends in an error and produces no results.
C12_LengthMismatchRejected ==
    \A o \in Objects :
        LET s == storage[o]
        IN  CallEnded(s) /\ LengthMismatch(s)
            => s.exception # "none" /\ NoResults(s)

\* ------------------------------------------------ a second run of an object
\* what the caller keeps of a finished run
Results(s) == [Q_sto |-> s.Q_sto, Q_loss |-> s.Q_loss, T_sto |-> s.T_sto]

\* a second call of simulate on the same object with the same Q_in and Q_out
CallSimulateAgain(o) ==
    LET s == storage[o]
    IN  /\ s.pc = "idle"
        /\ s.runs = 1
        /\ s.last = "simulate"
        /\ storage' = [storage EXCEPT ![o] =
             [BeginSimulate(@, s.Q_in, s.Q_out) EXCEPT !.first = Results(s)]]
        /\ UNCHANGED globals

\* a second call of simulate_stratified on the same object with the same
\* arguments
CallStratifiedAgain(o) ==
    LET s == storage[o]
    IN  /\ s.pc = "idle"
        /\ s.runs = 1
        /\ s.last = "simulate_stratified"
        /\ storage' = [storage EXCEPT ![o] =
             [BeginStratified(@, s.Q_in, s.Q_out, s.num_layers,
                              s.thermal_conductivity)
                EXCEPT !.first = Results(s)]]
        /\ UNCHANGED globals

NextRerun == \E o \in {1} :
    \/ \E args \in PairArgs : Construct(o, args)
    \/ \E series \in InputSeries : CallSimulate(o, series)
    \/ SimulateStep(o)
    \/ \E series \in InputSeries, n \in 1..MaxLayers, k \in ThermalConductivities :
          CallStratified(o, series, n, k)
    \/ StratLoss(o)
    \/ StratDischarge(o)
    \/ StratCharge(o)
    \/ StratDiffuse(o)
    \/ StratRecord(o)
    \/ CallSimulateAgain(o)
    \/ CallStratifiedAgain(o)

SpecRerun == Init /\ [][NextRerun]_vars

\* the second run of s has returned
SecondRunFinished(s) == s.pc = "idle" /\ s.runs = 2 /\ s.exception = "none"

\* C14: a second call of simulate, or of simulate_stratified, on the same
\* object with the same Q_in and Q_out leaves Q_sto, Q_loss and T_sto equal at
\* every index, index 0 included, to those of the first run.
C14_RerunReproducible ==
    \A o \in Objects :
        LET s == storage[o]
        IN  SecondRunFinished(s) => Results(s) = s.first

\* ------------------------------------- simulate_stratified(Q_in, Q_out)
\* the defaults of the parameters num_layers and thermal_conductivity of
\* simulate_stratified.  The conductivity 0.6 W/(m K) is written in the unit
\* in which the side surface of DefaultDims conducts 1 kWh per degree and hour.
DefaultNumLayers == 5
DefaultThermalConductivity == 100

\* a storage of DefaultNumLayers units of height and volume
DefaultDims == << 1, 1, DefaultNumLayers >>

\* configurations whose num_layers and thermal_conductivity are, and are not,
\* the defaults of simulate_stratified
ConfiguredArgs ==
    { [Args("truncated_cone", 1, T0, lc, 1)
          EXCEPT !.dimensions = DefaultDims, !.num_layers = n,
                 !.thermal_conductivity = k] :
        T0 \in InitialTemps,
        lc \in {<< 0, 0, 0 >>, << LossUnit, LossUnit, LossUnit >>},
        n \in {MaxLayers - 1, DefaultNumLayers},
        k \in {0, DefaultThermalConductivity} }

\* a call of simulate_stratified(Q_in, Q_out), up to the loop
CallStratifiedDefault(o, series) ==
    LET s == storage[o]
    IN  /\ s.pc = "idle"
        /\ s.runs = 0
        /\ UnitLayers(s, DefaultNumLayers, DefaultThermalConductivity)
        /\ storage' = [storage EXCEPT ![o] =
             BeginStratified(@, [h \in DOMAIN series |-> series[h][1]],
                                [h \in DOMAIN series |-> series[h][2]],
                                DefaultNumLayers, DefaultThermalConductivity)]
        /\ UNCHANGED globals

NextDefault == \E o \in {1} :
    \/ \E args \in ConfiguredArgs : Construct(o, args)
    \/ \E series \in InputSeries : CallStratifiedDefault(o, series)
    \/ StratLoss(o)
    \/ StratDischarge(o)
    \/ StratCharge(o)
    \/ StratDiffuse(o)
    \/ StratRecord(o)

SpecDefault == Init /\ [][NextDefault]_vars

\* C17: simulate_stratified(Q_in, Q_out) on a storage constructed with
\* num_layers = N and thermal_conductivity = k records at every hour a layer
\* temperature vector of length N and diffuses with conductivity k.
C17_UsesConfiguredLayers ==
    \A o \in Objects : \A h \in HourIdx :
        LET s == storage[o]
        IN  StratifiedHourDone(s, h)
            => /\ DOMAIN s.T_sto_layers[h] = 0..(s.cfg.num_layers - 1)
               /\ s.thermal_conductivity = s.cfg.thermal_conductivity

\* ---------------------------------------------- optimize_storage_geometry
\* the starting point of the Nelder-Mead search, the first point at which it
\* evaluates objective_function
initial_guess == << 10, 12 >>

\* optimize_storage_geometry(Q_in, Q_out) up to the call of simulate in the
\* first evaluation of objective_function: lines 463-465
CallOptimize(o, series) ==
    LET s == storage[o]
    IN  /\ s.pc = "idle"
        /\ s.runs = 0
        /\ storage' = [storage EXCEPT ![o] =
             [BeginSimulate(@, [h \in DOMAIN series |-> series[h][1]],
                               [h \in DOMAIN series |-> series[h][2]])
                EXCEPT !.cfg.dimensions = initial_guess,
                       !.geometry = calculate_cylindrical_geometry(initial_guess),
                       !.caller = "optimize"]]
        /\ UNCHANGED globals

\* lines 465-466: simulate has returned None to objective_function, and the
\* iteration over it raises TypeError
ObjectiveFunction(o) ==
    /\ storage[o].pc = "objective"
    /\ storage' = [storage EXCEPT ![o] =
         [@ EXCEPT !.pc = "idle", !.last = "optimize_raised",
                   !.exception = "TypeError", !.caller = "none"]]
    /\ UNCHANGED globals

\* the storage types and sizes offered to the search
OptimizeArgs ==
    { Args(ty, h, T0, << LossUnit, LossUnit, LossUnit >>, 1) :
        ty \in {"cylindrical", "truncated_cone"}, h \in Heights, T0 \in InitialTemps }

NextOptimize == \E o \in {1} :
    \/ \E args \in OptimizeArgs : Construct(o, args)
    \/ \E series \in InputSeries : CallSimulate(o, series)
    \/ SimulateStep(o)
    \/ \E series \in InputSeries, n \in 1..MaxLayers, k \in ThermalConductivities :
          CallStratified(o, series, n, k)
    \/ StratLoss(o)
    \/ StratDischarge(o)
    \/ StratCharge(o)
    \/ StratDiffuse(o)
    \/ StratRecord(o)
    \/ \E series \in InputSeries : CallOptimize(o, series)
    \/ ObjectiveFunction(o)

SpecOptimize == Init /\ [][NextOptimize]_vars

\* C18: no step taken on a constructed storage, a step of
\* optimize_storage_geometry included, changes dimensions, volume, S_top,
\* S_side or S_bottom.
C18_GeometryFixedAfterConstruction ==
    [][\A o \in Objects :
          storage[o].pc # "new"
          => /\ storage'[o].cfg.dimensions = storage[o].cfg.dimensions
             /\ storage'[o].geometry = storage[o].geometry]_vars

\* --------------------------------------------- runs on distinct objects
\* a and b are in the same call, with the same configuration and arguments,
\* at the same point of its loops
SameRunSamePoint(sa, sb) ==
    /\ sa.last \in {"simulate", "simulate_stratified"}
    /\ sa.last = sb.last
    /\ sa.cfg = sb.cfg /\ sa.Q_in = sb.Q_in /\ sa.Q_out = sb.Q_out
    /\ sa.num_layers = sb.num_layers
    /\ sa.thermal_conductivity = sb.thermal_conductivity
    /\ sa.pc = sb.pc /\ sa.t = sb.t /\ sa.i = sb.i

\* the state arrays of a run
RunArrays(s) ==
    [Q_sto |-> s.Q_sto, Q_loss |-> s.Q_loss, T_sto |-> s.T_sto,
     T_sto_layers |-> s.T_sto_layers,
     heat_stored_per_layer |-> s.heat_stored_per_layer]

\* whatever the steps of the other object's run that came in between, a run
\* has at each point the arrays of any other run of the same call
InterleavingInvisible ==
    \A a, b \in Objects :
        SameRunSamePoint(storage[a], storage[b])
        => RunArrays(storage[a]) = RunArrays(storage[b])

\* a step writes the attributes of one object only, and no module global
StepOwnsItsObject ==
    /\ \E o \in Objects : \A p \in Objects \ {o} : storage'[p] = storage[p]
    /\ globals' = globals

\* C19: runs on two distinct objects are independent under every interleaving
\* of their time steps: each object's Q_sto, Q_loss, T_sto and T_sto_layers are
\* those of the same run taken with any other interleaving, a step changes one
\* object only, and no module-level variable is written.
C19_RunsIndependent == []InterleavingInvisible /\ [][StepOwnsItsObject]_vars

\* two distinct objects in the same layered run with conduction, both past
\* the diffusion of a later hour, which moved heat between layers
C19_Witness ==
    \E a, b \in Objects :
        /\ a # b
        /\ SameRunSamePoint(storage[a], storage[b])
        /\ storage[a].pc = "strat_record"
        /\ storage[a].t >= 1
        /\ storage[a].num_layers >= 2
        /\ storage[a].thermal_conductivity > 0
        /\ storage[a].heat_transfer_kWh # 0

\* ------------------------------------------------- calculate_efficiency
RECURSIVE Gcd(_, _)
Gcd(a, b) == IF b = 0 THEN a ELSE Gcd(b, a % b)

\* the float a / b of two non-negative sums, kept exact as a fraction in
\* lowest terms; numpy gives inf for a / 0 (den = 0, num = 1) and nan for 0 / 0
\* (den = 0, num = 0)
FloatQuotient(a, b) ==
    IF b = 0 THEN [set |-> TRUE, num |-> IF a = 0 THEN 0 ELSE 1, den |-> 0]
    ELSE [set |-> TRUE, num |-> a \div Gcd(a, b), den |-> b \div Gcd(a, b)]

\* np.sum of an array
NpSum(f) == SumTo(f, Cardinality(DOMAIN f))

\* lines 456-459, mutated: the change in stored energy is counted as output
calculate_efficiency_stored(s, Q_in, Q_out) ==
    LET total_input_energy == NpSum(Q_in)
        total_output_energy == NpSum(Q_out)
        change_in_stored_energy ==
            s.Q_sto[PyIndex(-1, s.cfg.hours)] - s.Q_sto[0]
    IN  FloatQuotient(total_output_energy + change_in_stored_energy,
                      total_input_energy)

\* lines 456-459: the value assigned to self.efficiency
calculate_efficiency(s, Q_in, Q_out) ==
    LET total_input_energy == NpSum(Q_in)
        total_output_energy == NpSum(Q_out)
        change_in_stored_energy ==
            s.Q_sto[PyIndex(-1, s.cfg.hours)] - s.Q_sto[0]
    IN  FloatQuotient(total_output_energy, total_input_energy)

\* a call of calculate_efficiency(Q_in, Q_out) between runs
CalculateEfficiency(o, series) ==
    LET s == storage[o]
        Q_in == [h \in DOMAIN series |-> series[h][1]]
        Q_out == [h \in DOMAIN series |-> series[h][2]]
    IN  /\ s.pc = "idle"
        /\ storage' = [storage EXCEPT ![o] =
             [@ EXCEPT !.efficiency = calculate_efficiency(s, Q_in, Q_out),
                       !.efficiency_args = [Q_in |-> Q_in, Q_out |-> Q_out]]]
        /\ UNCHANGED globals

NextPost == \E o \in {1} :
    \/ \E args \in PairArgs : Construct(o, args)
    \/ \E series \in InputSeries : CallSimulate(o, series)
    \/ SimulateStep(o)
    \/ \E series \in ConstantSeries, n \in 1..MaxLayers, k \in ThermalConductivities :
          CallStratified(o, series, n, k)
    \/ StratLoss(o)
    \/ StratDischarge(o)
    \/ StratCharge(o)
    \/ StratDiffuse(o)
    \/ StratRecord(o)
    \/ \E series \in InputSeries : CalculateEfficiency(o, series)

SpecPost == Init /\ [][NextPost]_vars

\* the efficiency of s is the quotient of the output and the input it was
\* given, each summed over the hours 0..hours-1, whatever Q_sto holds
EfficiencyIsOutputOverInput(s) ==
    LET sum_in  == SumTo(s.efficiency_args.Q_in, s.cfg.hours)
        sum_out == SumTo(s.efficiency_args.Q_out, s.cfg.hours)
        e == s.efficiency
    IN  IF sum_in = 0
        THEN e.den = 0
        ELSE e.den > 0 /\ e.num * sum_in = e.den * sum_out

\* a step that sets the efficiency of s
SetsEfficiency(o) ==
    \/ storage'[o].efficiency # storage[o].efficiency
    \/ storage'[o].efficiency_args # storage[o].efficiency_args

\* C20: calculate_efficiency sets efficiency to sum(Q_out) / sum(Q_in) over the
\* hours 0..hours-1, whatever the stored-energy series is, and leaves Q_sto,
\* Q_loss and T_sto as they were.
C20_EfficiencyIsOutputOverInput ==
    /\ [](\A o \in Objects :
             storage[o].efficiency.set => EfficiencyIsOutputOverInput(storage[o]))
    /\ [][\A o \in Objects :
             SetsEfficiency(o) => Results(storage'[o]) = Results(storage[o])]_vars

\* an efficiency below 1 computed after a run that changed the stored energy
C20_Witness ==
    \E o \in Objects :
        LET s == storage[o]
        IN  /\ s.efficiency.set
            /\ RunFinished(s, "simulate")
            /\ s.Q_sto[PyIndex(-1, s.cfg.hours)] # s.Q_sto[0]
            /\ s.efficiency.den > s.efficiency.num
            /\ s.efficiency.num > 0

\* ------------------------------------------ calculate_operational_costs
\* prices per kWh offered to calculate_operational_costs
Prices == {1, 2}

\* lines 452-453, mutated: the loss of the first hour is left out of the sum
calculate_operational_costs_skip(s, energy_price_per_kWh) ==
    LET total_energy_loss_kWh == FSub(NpSum(s.Q_loss), s.Q_loss[0])
    IN  [set |-> TRUE, value |-> FMul(total_energy_loss_kWh, energy_price_per_kWh)]

\* lines 452-453: the value assigned to self.operational_costs
calculate_operational_costs(s, energy_price_per_kWh) ==
    LET total_energy_loss_kWh == NpSum(s.Q_loss)
    IN  [set |-> TRUE, value |-> FMul(total_energy_loss_kWh, energy_price_per_kWh)]

\* a call of calculate_operational_costs(energy_price_per_kWh) between runs
CalculateOperationalCosts(o, energy_price_per_kWh) ==
    LET s == storage[o]
    IN  /\ s.pc = "idle"
        /\ storage' = [storage EXCEPT ![o] =
             [@ EXCEPT !.operational_costs =
                           calculate_operational_costs(s, energy_price_per_kWh),
                       !.energy_price_per_kWh = energy_price_per_kWh]]
        /\ UNCHANGED globals

NextCosts == \E o \in {1} :
    \/ \E args \in PairArgs : Construct(o, args)
    \/ \E series \in InputSeries : CallSimulate(o, series)
    \/ SimulateStep(o)
    \/ \E series \in ConstantSeries, n \in 1..MaxLayers, k \in ThermalConductivities :
          CallStratified(o, series, n, k)
    \/ StratLoss(o)
    \/ StratDischarge(o)
    \/ StratCharge(o)
    \/ StratDiffuse(o)
    \/ StratRecord(o)
    \/ \E price \in Prices : CalculateOperationalCosts(o, price)

SpecCosts == Init /\ [][NextCosts]_vars

\* a step that sets the operational costs of object o
SetsCosts(o) ==
    \/ storage'[o].operational_costs # storage[o].operational_costs
    \/ storage'[o].energy_price_per_kWh # storage[o].energy_price_per_kWh

\* C21: calculate_operational_costs sets operational_costs to the price per
\* kWh times the sum of Q_loss[t] over the hours 0..hours-1, hour 0 included.
C21_CostsArePriceTimesLoss ==
    [][\A o \in Objects :
          SetsCosts(o)
          => /\ storage'[o].operational_costs.set
             /\ storage'[o].operational_costs.value =
                  storage'[o].energy_price_per_kWh
                    * SumTo(storage[o].Q_loss, storage[o].cfg.hours)
             /\ storage'[o].Q_loss = storage[o].Q_loss]_vars

\* costs computed after a run whose loss at hour 0 is not zero
C21_Witness ==
    \E o \in Objects :
        LET s == storage[o]
        IN  /\ s.operational_costs.set
            /\ s.runs >= 1
            /\ s.Q_loss[0] # 0
            /\ s.operational_costs.value =
                 s.energy_price_per_kWh * SumTo(s.Q_loss, s.cfg.hours)
            /\ s.operational_costs.value # 0

\* ------------------------------- calculate_stratified_heat_loss on its own
\* the storage types calculate_stratified_heat_loss has a formula for
LossFormulaTypes == {"cylindrical_overground", "cylindrical_underground",
                     "truncated_cone", "truncated_trapezoid"}

\* attribute values the function is applied to
LossArgs == { args \in AllArgs : args.storage_type \in LossFormulaTypes }

\* layer temperature vectors of two and more layers
LayerTemperatures == UNION { [0..(n - 1) -> InitialTemps] : n \in 2..MaxLayers }

\* the surfaces of a storage of the given type; the two cylindrical types
\* with a loss formula are cylinders
SurfacesOf(storage_type, dimensions) ==
    IF storage_type \in {"cylindrical_overground", "cylindrical_underground"}
    THEN calculate_cylindrical_geometry(dimensions)
    ELSE Geometry(storage_type, dimensions)

\* calculate_stratified_heat_loss(T_sto_layers) applied to an object that has
\* the attributes args: the function reads self.storage_type, self.dimensions,
\* the coefficients, the surfaces and the reference temperatures, and writes
\* self.Q_loss_layers.  The constructor builds no object of the two
\* cylindrical types with a formula; the attributes are set here directly.
StratifiedHeatLoss(o, args, T_sto_layers) ==
    LET s == [storage[o] EXCEPT !.cfg = args,
                !.geometry = SurfacesOf(args.storage_type, args.dimensions)]
        n == Cardinality(DOMAIN T_sto_layers)
        loss == calculate_stratified_heat_loss(s, T_sto_layers, n)
    IN  /\ storage[o].pc = "new"
        /\ storage' = [storage EXCEPT ![o] =
             [s EXCEPT !.pc = "loss_done",
                       !.loss_argument = T_sto_layers,
                       !.Q_loss_layers = loss.layers,
                       !.loss_returned = loss.value,
                       !.exception = IF loss.raised THEN "ValueError" ELSE "none"]]
        /\ UNCHANGED globals

NextLoss == \E o \in {1} :
    \E args \in LossArgs, T_sto_layers \in LayerTemperatures :
        StratifiedHeatLoss(o, args, T_sto_layers)

SpecLoss == Init /\ [][NextLoss]_vars

\* calculate_stratified_heat_loss has returned on s
LossReturned(s) == s.pc = "loss_done" /\ s.exception = "none"

\* kW lost through a surface with coefficient K and area S at temperature T
\* against the reference temperature T_reference
SurfaceLoss(K, S, T, T_reference) == (K * S * (T - T_reference)) \div WattsPerKW

\* the top layer: the top coefficient and top surface against T_amb
TopLayerRule(s) ==
    s.Q_loss_layers[0] =
        SurfaceLoss(s.cfg.lambda_top \div s.cfg.dt_top, s.geometry.S_top,
                    s.loss_argument[0], s.cfg.T_amb)

\* the reference temperature below and beside the storage
GroundReference(cfg) ==
    IF cfg.storage_type = "cylindrical_overground" THEN cfg.T_amb ELSE cfg.T_soil

\* the side coefficient of the storage type
SideCoefficient(cfg) ==
    IF cfg.storage_type = "cylindrical_overground"
    THEN cfg.lambda_side \div cfg.ds_side
    ELSE cfg.K_s

\* the last layer: the bottom coefficient and bottom surface only
BottomLayerRule(s) ==
    LET n == Cardinality(DOMAIN s.loss_argument)
    IN  s.Q_loss_layers[n - 1] =
            SurfaceLoss(s.cfg.K_b, s.geometry.S_bottom,
                        s.loss_argument[n - 1], GroundReference(s.cfg))

\* an interior layer: the side coefficient with the side surface over N
InteriorLayerRule(s, i) ==
    LET n == Cardinality(DOMAIN s.loss_argument)
    IN  s.Q_loss_layers[i] =
            (SideCoefficient(s.cfg) * s.geometry.S_side
               * (s.loss_argument[i] - GroundReference(s.cfg)))
              \div (n * WattsPerKW)

\* a layer below the top of the underground cylinder: the combined side and
\* bottom coefficient with the combined surface over N
CombinedLayerRule(s, i) ==
    LET n == Cardinality(DOMAIN s.loss_argument)
        R == s.cfg.dimensions[1]
        H == s.cfg.dimensions[2]
    IN  s.Q_loss_layers[i] =
            (s.cfg.K_s * (R * R + 2 * R * H) * (s.loss_argument[i] - s.cfg.T_soil))
              \div (n * WattsPerKW)

TotalIsSum(s) ==
    s.loss_returned
        = SumTo(s.Q_loss_layers, Cardinality(DOMAIN s.loss_argument))

Min(a, b) == IF a <= b THEN a ELSE b

\* the net demand and the net surplus of the hour s is in
NetDemand(s) == s.Q_out[s.t] - s.Q_in[s.t]
NetSurplus(s) == s.Q_in[s.t] - s.Q_out[s.t]

\* kWh layer i can give down to T_min, and take up to T_max, at the
\* temperature of the hour before
AvailableDownToTmin(s, i) ==
    (s.T_sto_layers[s.t - 1][i] - s.cfg.T_min) * LayerCapacity(s)
CapacityUpToTmax(s, i) ==
    (s.cfg.T_max - s.T_sto_layers[s.t - 1][i]) * LayerCapacity(s)

\* the sum of f(0), ..., f(n-1) for f given as a function on 0..n-1
SumOver(f) == SumTo(f, Cardinality(DOMAIN f))

\* s has run the discharge loop of hour t >= 1 and not yet the charge loop
AfterDischargePass(s) ==
    /\ s.last = "simulate_stratified"
    /\ s.pc = "strat_charge" /\ s.i = 0

\* kWh the discharge pass of the hour took out of the layers: the layers held
\* Q_sto[t-1] in total when the hour began
DischargedInPass(s) ==
    s.Q_sto[s.t - 1] - TotalStored(s.heat_stored_per_layer, s.num_layers)

\* the iteration of the discharge loop on layer i of object o
DischargeIteration(o, i) ==
    /\ storage[o].pc = "strat_discharge"
    /\ storage[o].i = i
    /\ storage'[o].pc \in {"strat_discharge", "strat_charge"}
    /\ storage'[o] # storage[o]

\* the discharge pass has taken min(D, available) out of the layers
DischargeTotalIsMin ==
    \A o \in Objects :
        LET s == storage[o]
            available == [i \in 0..(s.num_layers - 1) |-> AvailableDownToTmin(s, i)]
        IN  AfterDischargePass(s) /\ NetDemand(s) > 0
            => DischargedInPass(s) = Min(NetDemand(s), SumOver(available))

\* an iteration of the discharge loop adds no energy to its layer, and takes
\* energy from layer i only when the layers before it stand at T_min
DischargeInOrder ==
    \A o \in Objects : \A i \in 0..(MaxLayers - 1) :
        DischargeIteration(o, i) /\ NetDemand(storage[o]) > 0
        => LET s == storage[o]
               heat  == s.heat_stored_per_layer[i]
               heat1 == storage'[o].heat_stored_per_layer[i]
           IN  /\ heat1 <= heat
               /\ heat1 < heat
                  => \A j \in 0..(i - 1) : s.T_sto_layers[s.t][j] = s.cfg.T_min

\* C23: in a stratified step with net demand D = Q_out[t] - Q_in[t] > 0 the
\* discharge pass removes min(D, sum of the energy available down to T_min)
\* in total, drains the layers in index order, each only after the layers
\* before it are at T_min, and never adds energy to a layer.
C23_DischargePass == []DischargeTotalIsMin /\ [][DischargeInOrder]_vars

\* s has run the charge loop of hour t >= 1; the diffusion that follows moves
\* heat between layers and leaves their total
AfterChargePass(s) ==
    /\ s.last = "simulate_stratified"
    /\ s.pc \in {"strat_diffuse", "strat_record"}
    /\ s.t >= 1

\* kWh the layers lose in the hour: line 421 for every layer
LossesInStep(s) ==
    SumOver([i \in 0..(s.num_layers - 1) |-> s.Q_loss_layers[i] \div SecondsPerHour])

\* kWh the charge pass of an hour with a surplus put into the layers: such an
\* hour discharges nothing, so the layers held Q_sto[t-1] before the pass and
\* hold that plus the charge minus the losses after it
ChargedInPass(s) ==
    TotalStored(s.heat_stored_per_layer, s.num_layers) - s.Q_sto[s.t - 1]
        + LossesInStep(s)

\* the iteration of the charge loop on layer i of object o
ChargeIteration(o, i) ==
    /\ storage[o].pc = "strat_charge"
    /\ storage[o].i = i
    /\ storage'[o].pc \in {"strat_charge", "strat_diffuse", "strat_record"}
    /\ storage'[o] # storage[o]

\* the charge pass has put min(S, capacity) into the layers
ChargeTotalIsMin ==
    \A o \in Objects :
        LET s == storage[o]
            capacity == [i \in 0..(s.num_layers - 1) |-> CapacityUpToTmax(s, i)]
        IN  AfterChargePass(s) /\ NetSurplus(s) > 0
            => ChargedInPass(s) = Min(NetSurplus(s), SumOver(capacity))

\* an iteration of the charge loop takes no energy from its layer by
\* charging, and gives energy to layer i only when the layers before it stand
\* at T_max
ChargeInOrder ==
    \A o \in Objects : \A i \in 0..(MaxLayers - 1) :
        ChargeIteration(o, i) /\ NetSurplus(storage[o]) > 0
        => LET s == storage[o]
               added == storage'[o].heat_stored_per_layer[i]
                          - s.heat_stored_per_layer[i]
                          + (s.Q_loss_layers[i] \div SecondsPerHour)
           IN  /\ added >= 0
               /\ added > 0
                  => \A j \in 0..(i - 1) : s.T_sto_layers[s.t][j] = s.cfg.T_max

\* C24: in a stratified step with net surplus S = Q_in[t] - Q_out[t] > 0 the
\* charge pass adds min(S, sum of the capacity up to T_max) in total, fills the
\* layers in index order, each only after the layers before it are at T_max,
\* discards the rest, and takes no energy from a layer by charging.
C24_ChargePass == []ChargeTotalIsMin /\ [][ChargeInOrder]_vars

\* ---------------------------------------------- strong conduction
\* calls of simulate_stratified with layers of volume 1 and height 1 and a
\* conductivity that moves 2 kWh per degree and hour, twice what a layer
\* holds per degree
StrongConduction(s, num_layers, thermal_conductivity) ==
    /\ s.geometry.volume = num_layers
    /\ StratifiedHeight(s.cfg) = num_layers
    /\ thermal_conductivity * s.geometry.S_side = 2 * WattsPerKW

CallStratifiedStrong(o, series, num_layers, thermal_conductivity) ==
    LET s == storage[o]
    IN  /\ s.pc = "idle"
        /\ s.runs = 0
        /\ StrongConduction(s, num_layers, thermal_conductivity)
        /\ storage' = [storage EXCEPT ![o] =
             BeginStratified(@, [h \in DOMAIN series |-> series[h][1]],
                                [h \in DOMAIN series |-> series[h][2]],
                                num_layers, thermal_conductivity)]
        /\ UNCHANGED globals

NextStrong == \E o \in {1} :
    \/ \E args \in PairArgs : Construct(o, args)
    \/ \E series \in InputSeries, n \in 1..MaxLayers, k \in ThermalConductivities :
          CallStratifiedStrong(o, series, n, k)
    \/ StratLoss(o)
    \/ StratDischarge(o)
    \/ StratCharge(o)
    \/ StratDiffuse(o)
    \/ StratRecord(o)

SpecStrong == Init /\ [][NextStrong]_vars

\* ------------------------------------------ the balance of a stratified step
\* the hour whose step s has just ended
EndedHour(s) == s.t - 1

\* kWh the passes of the ended hour moved: charged minus discharged, which
\* is the part of the hour's balance Q_in - Q_out the passes used up
ChargedMinusDischarged(s) ==
    (s.Q_in[EndedHour(s)] - s.Q_out[EndedHour(s)]) - s.remaining_heat

\* the losses of the ended hour are those of the layer temperatures of the
\* hour before it
LossesFromHourBefore(s) ==
    \A i \in 0..(s.num_layers - 1) :
        s.Q_loss_layers[i]
            = LayerLoss(s, s.T_sto_layers[EndedHour(s) - 1], s.num_layers, i)

\* C25: for every step t >= 1 of simulate_stratified,
\* Q_sto[t] - Q_sto[t-1] = charged - discharged - sum_i Q_loss_layers[i] / 3600
\* with the losses computed from the layer temperatures at t-1 and taken from
\* every layer, whichever branch the charge pass took.
C25_StratifiedEnergyBalance ==
    \A o \in Objects :
        LET s == storage[o]
        IN  StepEnded(s) /\ EndedHour(s) >= 1
            => /\ LossesFromHourBefore(s)
               /\ s.Q_sto[EndedHour(s)] - s.Q_sto[EndedHour(s) - 1]
                    = ChargedMinusDischarged(s) - LossesInStep(s)

\* a step that charged a surplus into layers that lose heat
C25_Witness ==
    \E o \in Objects :
        LET s == storage[o]
        IN  /\ StepEnded(s) /\ EndedHour(s) >= 1
            /\ s.num_layers >= 2
            /\ LossesInStep(s) > 0
            /\ ChargedMinusDischarged(s) > 0

\* ------------------------------------- a stratified run after another run
\* initial temperatures below T_min, between the limits and above T_max
RestartTemps == {3, 6, 9}

RestartArgs ==
    { Args("truncated_cone", h, T0, << 0, 0, 0 >>, 1) :
        h \in {1, 2}, T0 \in RestartTemps }

\* a call of simulate_stratified on an object on which a run has returned
CallStratifiedAfterRun(o, series, num_layers, thermal_conductivity) ==
    LET s == storage[o]
    IN  /\ s.pc = "idle"
        /\ s.runs = 1
        /\ s.exception = "none"
        /\ UnitLayers(s, num_layers, thermal_conductivity)
        /\ storage' = [storage EXCEPT ![o] =
             [BeginStratified(@, [h \in DOMAIN series |-> series[h][1]],
                                 [h \in DOMAIN series |-> series[h][2]],
                                 num_layers, thermal_conductivity)
                EXCEPT !.first = Results(s), !.caller = s.last]]
        /\ UNCHANGED globals

NextRestart == \E o \in {1} :
    \/ \E args \in RestartArgs : Construct(o, args)
    \/ \E series \in ConstantSeries : CallSimulate(o, series)
    \/ SimulateStep(o)
    \/ \E series \in ConstantSeries, n \in {1, 2}, k \in ThermalConductivities :
          CallStratified(o, series, n, k)
    \/ \E series \in ConstantSeries, n \in {1, 2}, k \in ThermalConductivities :
          CallStratifiedAfterRun(o, series, n, k)
    \/ StratLoss(o)
    \/ StratDischarge(o)
    \/ StratCharge(o)
    \/ StratDiffuse(o)
    \/ StratRecord(o)

SpecRestart == Init /\ [][NextRestart]_vars

\* the step t = 0 of a stratified run of s has set the layers' heat
StratifiedStarted(s) ==
    /\ s.last = "simulate_stratified"
    /\ s.pc = "strat_record"
    /\ s.t = 0

\* C26: at t = 0 of every stratified run, also of a run on an object on which
\* simulate or simulate_stratified was executed before, every layer
\* temperature is the initial_temp of the constructor,
\* Q_sto[0] = volume * rho * cp * (initial_temp - T_ref) / 3.6e6 and every
\* layer holds Q_sto[0] / N.
C26_StratifiedStartsAtInitialTemp ==
    \A o \in Objects :
        LET s == storage[o]
            cfg == s.cfg
        IN  StratifiedStarted(s)
            => /\ \A i \in 0..(s.num_layers - 1) :
                     /\ s.T_sto_layers[0][i] = cfg.initial_temp
                     /\ s.heat_stored_per_layer[i] * s.num_layers = s.Q_sto[0]
               /\ s.Q_sto[0]
                    = s.geometry.volume * RhoCp * (cfg.initial_temp - cfg.T_ref)

\* ------------------------------- recorded temperature and stored energy
\* the passes of the hour t of s are done and the hour is about to be recorded
HourComputed(s) == s.last = "simulate_stratified" /\ s.pc = "strat_record"

\* layer i of s was discharged in the hour that is about to be recorded
LayerDischarged(s, i) ==
    /\ s.t >= 1
    /\ s.Q_in[s.t] - s.Q_out[s.t] < 0
    /\ s.cfg.T_min < s.T_sto_layers[s.t - 1][i]
    /\ i = 0

\* C27: for every N >= 1, at the end of every step t the recorded temperature
\* of every layer is the one its stored energy implies,
\* T_sto_layers[t, i] = T_ref + heat_stored_per_layer[i] * 3.6e6
\*                              / (layer_volume * rho * cp),
\* and a layer discharged in step t is recorded colder than at t-1.
C27_TemperatureFollowsEnergy ==
    \A o \in Objects :
        LET s == storage[o]
        IN  HourComputed(s)
            => \A i \in 0..(s.num_layers - 1) :
                 /\ s.T_sto_layers[s.t][i]
                      = ImpliedTemperature(s, s.heat_stored_per_layer[i])
                 /\ LayerDischarged(s, i)
                      => s.T_sto_layers[s.t][i] < s.T_sto_layers[s.t - 1][i]

\* --------------------------------------------- the direction of diffusion
\* the diffusion loop of s is about to handle the pair (s.i, s.i + 1)
BeforeTransfer(s) ==
    /\ s.last = "simulate_stratified"
    /\ s.pc = "strat_diffuse"
    /\ s.i < s.num_layers - 1

\* kWh the loop is about to move from layer s.i to layer s.i + 1
PendingTransfer(s) ==
    HeatTransferKWh(s, s.T_sto_layers[s.t][s.i] - s.T_sto_layers[s.t][s.i + 1])

\* the layer of s the energy of which implies the lower temperature
ColderByEnergy(s, i, j) ==
    ImpliedTemperature(s, s.heat_stored_per_layer[i])
        < ImpliedTemperature(s, s.heat_stored_per_layer[j])

\* C28: in the diffusion pass heat flows from hot to cold with respect to the
\* energy of the layers: for every adjacent pair (i, i+1) no energy is moved
\* out of the layer whose energy-implied temperature is the lower of the two
\* at the moment of the transfer.
C28_DiffusionHotToCold ==
    \A o \in Objects :
        LET s == storage[o]
        IN  BeforeTransfer(s)
            => /\ PendingTransfer(s) > 0 => ~ColderByEnergy(s, s.i, s.i + 1)
               /\ PendingTransfer(s) < 0 => ~ColderByEnergy(s, s.i + 1, s.i)

\* ---------------------------------------- discharging excludes charging
\* the discharge loop of the hour changed the energy of some layer
SomeLayerDischarged(s) == DischargedInPass(s) # 0

\* a discharge pass that took energy leaves no surplus to charge
DischargeLeavesNoSurplus ==
    \A o \in Objects :
        LET s == storage[o]
        IN  AfterDischargePass(s) /\ SomeLayerDischarged(s)
            => s.remaining_heat <= 0

\* kWh the iteration of the charge loop on layer i of o puts into the layer by
\* charging: the change of its energy without the loss of line 421
AddedByCharging(o, i) ==
    storage'[o].heat_stored_per_layer[i] - storage[o].heat_stored_per_layer[i]
        + (storage[o].Q_loss_layers[i] \div SecondsPerHour)

\* in an hour with a demand the charge loop adds no energy, and in an hour
\* without one the discharge loop takes none
ExclusivePasses ==
    \A o \in Objects : \A i \in 0..(MaxLayers - 1) :
        /\ ChargeIteration(o, i) /\ NetDemand(storage[o]) > 0
             => AddedByCharging(o, i) = 0
        /\ DischargeIteration(o, i) /\ NetDemand(storage[o]) <= 0
             => storage'[o].heat_stored_per_layer = storage[o].heat_stored_per_layer

\* C29: in a stratified step discharging and charging exclude each other: after
\* a discharge pass that took energy remaining_heat is not positive, so no
\* step takes energy from a layer in the discharge pass and adds energy to a
\* layer in the charge pass.
C29_DischargeExcludesCharge ==
    []DischargeLeavesNoSurplus /\ [][ExclusivePasses]_vars

\* a demand that took energy from the second layer too and was met: the charge
\* loop starts with remaining_heat = 0
C29_Witness ==
    \E o \in Objects :
        LET s == storage[o]
        IN  /\ AfterDischargePass(s) /\ s.t >= 1
            /\ s.num_layers >= 2
            /\ s.heat_stored_per_layer[1] * s.num_layers < s.Q_sto[0]
            /\ DischargedInPass(s) > 0
            /\ s.remaining_heat = 0

\* ------------------------------------------------- the animation controls
\* int(val) of a slider value: the slider moves in steps of 1, so val is whole
PyInt(val) == val

\* the object the controls of the plot are bound to
Plotted == storage[globals.slider.storage]

\* lines 36 and 104: slider.set_val(v) calls update_plot(v, storage, ax) through
\* on_changed, which sets current_frame
SetVal(g, v) == [g EXCEPT !.slider.val = v, !.current_frame = PyInt(v)]

\* lines 68-72, mutated: the frame is incremented without the bound hours - 1
forward_unbounded(g, hours) ==
    SetVal([g EXCEPT !.current_frame = @ + 1], g.current_frame + 1)

\* lines 68-72: forward(storage)
forward(g, hours) ==
    LET frame == Min(g.current_frame + 1, hours - 1)
    IN  SetVal([g EXCEPT !.current_frame = frame], frame)

\* lines 74-78: backward()
backward(g) ==
    LET frame == IF g.current_frame - 1 > 0 THEN g.current_frame - 1 ELSE 0
    IN  SetVal([g EXCEPT !.current_frame = frame], frame)

\* lines 90-101: interactive_plot(storage) creates the slider over
\* 0 .. storage.hours - 1 at current_frame and binds the controls to storage
InteractivePlot(o) ==
    /\ storage[o].pc = "idle"
    /\ ~globals.slider.defined
    /\ globals' = [globals EXCEPT !.slider =
         [defined |-> TRUE, val |-> globals.current_frame,
          valmax |-> storage[o].cfg.hours - 1, storage |-> o]]
    /\ UNCHANGED storage

\* lines 33-40: the user moves the slider to val
UpdatePlot(val) ==
    /\ globals.slider.defined
    /\ val \in 0..globals.slider.valmax
    /\ globals' = SetVal(globals, val)
    /\ UNCHANGED storage

\* lines 52-59: start_animation(storage, ax); the animation counts its frames
\* from 0
StartAnimation ==
    /\ globals.slider.defined
    /\ globals' = IF ~globals.is_animating
                  THEN [globals EXCEPT !.anim = "FuncAnimation",
                                       !.is_animating = TRUE,
                                       !.next_frame = 0]
                  ELSE globals
    /\ UNCHANGED storage

\* lines 61-66: stop_animation()
StopAnimation ==
    /\ globals.slider.defined
    /\ globals' = IF globals.anim # "None"
                  THEN [globals EXCEPT !.is_animating = FALSE]
                  ELSE globals
    /\ UNCHANGED storage

\* lines 42-50 and 56-57: a tick of the running animation calls animate(i, ...)
\* with the frames 0 .. storage.hours - 1 in turn, over and over
Animate ==
    LET i == globals.next_frame
    IN  /\ globals.slider.defined
        /\ globals.is_animating
        /\ globals' = [SetVal([globals EXCEPT !.current_frame = i], i)
                         EXCEPT !.next_frame = (i + 1) % Plotted.cfg.hours]
        /\ UNCHANGED storage

\* lines 119: the Forward button
Forward ==
    /\ globals.slider.defined
    /\ globals' = forward(globals, Plotted.cfg.hours)
    /\ UNCHANGED storage

\* line 124: the Backward button
Backward ==
    /\ globals.slider.defined
    /\ globals' = backward(globals)
    /\ UNCHANGED storage

NextControls ==
    \/ \E o \in Objects : \E args \in PairArgs : Construct(o, args)
    \/ \E o \in Objects : InteractivePlot(o)
    \/ \E val \in 0..(Hours - 1) : UpdatePlot(val)
    \/ StartAnimation
    \/ StopAnimation
    \/ Animate
    \/ Forward
    \/ Backward

SpecControls == Init /\ [][NextControls]_vars

\* C30: after any sequence of forward, backward, slider updates (update_plot)
\* and animation ticks (animate) current_frame is in 0 .. storage.hours - 1:
\* forward saturates at hours - 1 and backward at 0.
C30_FrameInRange ==
    globals.slider.defined
    => /\ globals.current_frame \in 0..(Plotted.cfg.hours - 1)
       /\ globals.slider.val = globals.current_frame

\* the frame at its upper end with the animation stopped there: a Forward
\* from here has to saturate
C30_Witness ==
    /\ globals.slider.defined
    /\ globals.current_frame = Plotted.cfg.hours - 1
    /\ globals.anim = "FuncAnimation"
    /\ ~globals.is_animating

====
